---- MODULE Spec2Model ----
(***************************************************************************)
(* A model of wenhua_auto.py: the WenhuaAutoScreenshot class and main().   *)
(*                                                                         *)
(* Spec      the run of main(): construction, run() with its loop over     *)
(*           contracts x periods, the ESC callback of the keyboard         *)
(*           listener thread, the brightness calls and save_document.      *)
(* FairSpec  Spec with weak fairness of the main thread (its steps are     *)
(*           key presses, fixed sleeps and file writes, all of which end). *)
(* LoadSpec  the constructor's input phase: _get_top_n_input and           *)
(*           _load_contracts with get_main_contracts.                      *)
(***************************************************************************)
EXTENDS Integers, Sequences, FiniteSets, TLC

VARIABLES
    pc,                  \* position of the main thread
    contracts,           \* self.contracts
    running,             \* self.running
    ci,                  \* index of the contract of the outer for loop
    pi,                  \* index of the period of the inner for loop
    brightness,          \* the screen's brightness
    original_brightness, \* self.original_brightness
    lastBrightnessArg,   \* argument of the most recent set_brightness call of run()
    files,               \* the files of self.screenshot_dir
    doc,                 \* the HTML document of save_document
    started,             \* result of start_wenhua()
    ret,                 \* return value of run()
    exit_code,           \* return value of main()
    configOk,            \* config.ini holds the [paths] keys the constructor reads
    raised,              \* an exception reached run()'s except clause
    switched,            \* history: contract indices passed to switch_contract, in order
    shots,               \* history: <<contract index, period>> of each successful take_screenshot
    lastCall,            \* history: the most recent switch_contract/switch_period/take_screenshot call
    lastContractCall,    \* history: the most recent switch_contract call
    lateSwitches,        \* history: switch_contract/switch_period calls made while running = FALSE
    stepFailed,          \* history: some switch_contract/switch_period/take_screenshot failed
    top_n,               \* self.top_n
    lastPrompt,          \* what the last round of _get_top_n_input printed
    cache,               \* content of contracts.json ("absent" flag and list)
    cache0,              \* history: contracts.json when _load_contracts was entered
    answer,              \* history: the line typed at the update prompt
    contacted,           \* history: get_main_contracts was called
    table,               \* history: the rows of fees.xls that were downloaded
    fetchFailed          \* history: the try block of _load_contracts raised

runVars == <<pc, contracts, running, ci, pi, brightness, original_brightness,
             lastBrightnessArg, files, doc, started, ret, exit_code, configOk, raised,
             switched, shots, lastCall, lastContractCall, lateSwitches, stepFailed>>

loadVars == <<top_n, lastPrompt, cache, cache0, answer, contacted, table, fetchFailed>>

vars == <<runVars, loadVars>>

(***************************************************************************)
(* Bounds                                                                  *)
(***************************************************************************)
MaxContracts == 2

(***************************************************************************)
(* Data                                                                    *)
(***************************************************************************)
\* self.periods, in the order of the list: weekly, daily, hourly
PeriodsWrongOrder == <<"daily", "weekly", "hourly">>

Periods == <<"weekly", "daily", "hourly">>

\* contract records; the last one lacks the 'name' key (a hand-edited contracts.json)
RB == [code |-> "RB2505", name |-> "rebar"]

HC == [code |-> "HC2505", name |-> "hot coil"]

NoName == [code |-> "I2505"]

ContractPool == {RB, HC, NoName}

WellFormed(contract) == {"code", "name"} \subseteq DOMAIN contract

\* f"{contract['code']}_{contract['name']}_{period}.png"
Filename(contract, period) == <<contract.code, contract.name, period>>

ContractLists == UNION {[1..n -> ContractPool] : n \in 0..MaxContracts}

\* what an earlier run may have left in the screenshots directory
StaleChoices == {{}, {Filename(RB, "daily")}}

BrightnessLevels == {100}

NoCall == [op |-> "none", c |-> 0, p |-> "none", ok |-> FALSE]

NoDoc == [called |-> FALSE, written |-> FALSE, images |-> {}]

LoadIdle ==
    /\ top_n = 5
    /\ lastPrompt = "none"
    /\ cache = [exists |-> FALSE, list |-> <<>>]
    /\ cache0 = [exists |-> FALSE, list |-> <<>>]
    /\ answer = <<>>
    /\ contacted = FALSE
    /\ table = <<>>
    /\ fetchFailed = FALSE

(***************************************************************************)
(* main() and run()                                                        *)
(***************************************************************************)
Init ==
    /\ pc = "main"
    /\ contracts \in ContractLists
    /\ running = TRUE
    /\ ci = 1
    /\ pi = 1
    /\ brightness \in BrightnessLevels
    /\ original_brightness \in {brightness, 100}
    /\ lastBrightnessArg = "none"
    /\ files \in StaleChoices
    /\ doc = NoDoc
    /\ started = "none"
    /\ ret = "none"
    /\ exit_code = -1
    /\ configOk \in BOOLEAN
    /\ raised = FALSE
    /\ switched = <<>>
    /\ shots = <<>>
    /\ lastCall = NoCall
    /\ lastContractCall = NoCall
    /\ lateSwitches = 0
    /\ stepFailed = FALSE
    /\ LoadIdle

\* main(), lines 498-500 and 512-514: the constructor returns, or raises and
\* main() returns 1 without calling run()
Construct ==
    /\ pc = "main"
    /\ \/ /\ configOk
          /\ pc' = "set_brightness"
          /\ exit_code' = exit_code
       \/ /\ ~configOk
          /\ pc' = "exit"
          /\ exit_code' = 1
    /\ UNCHANGED <<contracts, running, ci, pi, brightness, original_brightness,
                   lastBrightnessArg, files, doc, started, ret, configOk, raised,
                   switched, shots, lastCall, lastContractCall, lateSwitches, stepFailed>>
    /\ UNCHANGED loadVars

\* set_brightness(b): the WMI call sets the brightness, or raises and is logged
SetBrightness(b) == brightness' \in {b, brightness}

\* run(), line 441
RunSetBrightness ==
    /\ pc = "set_brightness"
    /\ SetBrightness(10)
    /\ lastBrightnessArg' = "10"
    /\ pc' = "start_wenhua"
    /\ UNCHANGED <<contracts, running, ci, pi, original_brightness, files, doc, started,
                   ret, exit_code, configOk, raised, switched, shots, lastCall,
                   lastContractCall, lateSwitches, stepFailed>>
    /\ UNCHANGED loadVars

StartWenhua_IgnoreFailure ==
    /\ pc = "start_wenhua"
    /\ \E ok \in BOOLEAN :
          /\ started' = (IF ok THEN "True" ELSE "False")
          /\ pc' = "for_contract"
          /\ ret' = ret
    /\ UNCHANGED <<contracts, running, ci, pi, brightness, original_brightness,
                   lastBrightnessArg, files, doc, exit_code, configOk, raised, switched,
                   shots, lastCall, lastContractCall, lateSwitches, stepFailed>>
    /\ UNCHANGED loadVars

\* run(), lines 444-446: start_wenhua() returns True, or False and run() returns False
StartWenhua ==
    /\ pc = "start_wenhua"
    /\ \/ /\ started' = "True"
          /\ pc' = "for_contract"
          /\ ret' = ret
       \/ /\ started' = "False"
          /\ pc' = "returned"
          /\ ret' = "False"
    /\ UNCHANGED <<contracts, running, ci, pi, brightness, original_brightness,
                   lastBrightnessArg, files, doc, exit_code, configOk, raised, switched,
                   shots, lastCall, lastContractCall, lateSwitches, stepFailed>>
    /\ UNCHANGED loadVars

ForContract_NoRunningCheck ==
    /\ pc = "for_contract"
    /\ \/ /\ ci > Len(contracts)
          /\ pc' = "after_loop"
       \/ /\ ci <= Len(contracts)
          /\ WellFormed(contracts[ci])
          /\ pc' = "switch_contract"
       \/ /\ ci <= Len(contracts)
          /\ ~WellFormed(contracts[ci])
          /\ pc' = "except"
    /\ UNCHANGED <<contracts, running, ci, pi, brightness, original_brightness,
                   lastBrightnessArg, files, doc, started, ret, exit_code, configOk,
                   raised, switched, shots, lastCall, lastContractCall, lateSwitches,
                   stepFailed>>
    /\ UNCHANGED loadVars

\* run(), lines 449-454: the next contract of the list, the check of self.running,
\* and the log line that reads contract['name'] and contract['code']
ForContract ==
    /\ pc = "for_contract"
    /\ \/ /\ ci > Len(contracts)
          /\ pc' = "after_loop"
       \/ /\ ci <= Len(contracts)
          /\ ~running
          /\ pc' = "after_loop"
       \/ /\ ci <= Len(contracts)
          /\ running
          /\ WellFormed(contracts[ci])
          /\ pc' = "switch_contract"
       \/ /\ ci <= Len(contracts)
          /\ running
          /\ ~WellFormed(contracts[ci])
          /\ pc' = "except"
    /\ UNCHANGED <<contracts, running, ci, pi, brightness, original_brightness,
                   lastBrightnessArg, files, doc, started, ret, exit_code, configOk,
                   raised, switched, shots, lastCall, lastContractCall, lateSwitches,
                   stepFailed>>
    /\ UNCHANGED loadVars

SwitchContract_AbortOnFailure ==
    /\ pc = "switch_contract"
    /\ \E ok \in BOOLEAN :
          /\ lastCall' = [op |-> "switch_contract", c |-> ci, p |-> "none", ok |-> ok]
          /\ lastContractCall' = lastCall'
          /\ stepFailed' = (stepFailed \/ ~ok)
          /\ IF ok
             THEN /\ pi' = 1
                  /\ ci' = ci
                  /\ pc' = "for_period"
             ELSE /\ pi' = pi
                  /\ ci' = ci
                  /\ pc' = "after_loop"
    /\ switched' = Append(switched, ci)
    /\ lateSwitches' = IF running THEN lateSwitches ELSE lateSwitches + 1
    /\ UNCHANGED <<contracts, running, brightness, original_brightness, lastBrightnessArg,
                   files, doc, started, ret, exit_code, configOk, raised, shots>>
    /\ UNCHANGED loadVars

\* run(), lines 457-459, and switch_contract, lines 276-295: True, or False
\* (an exception of pyautogui, logged) and the loop continues with the next contract
SwitchContract ==
    /\ pc = "switch_contract"
    /\ \E ok \in BOOLEAN :
          /\ lastCall' = [op |-> "switch_contract", c |-> ci, p |-> "none", ok |-> ok]
          /\ lastContractCall' = lastCall'
          /\ stepFailed' = (stepFailed \/ ~ok)
          /\ IF ok
             THEN /\ pi' = 1
                  /\ ci' = ci
                  /\ pc' = "for_period"
             ELSE /\ pi' = pi
                  /\ ci' = ci + 1
                  /\ pc' = "for_contract"
    /\ switched' = Append(switched, ci)
    /\ lateSwitches' = IF running THEN lateSwitches ELSE lateSwitches + 1
    /\ UNCHANGED <<contracts, running, brightness, original_brightness, lastBrightnessArg,
                   files, doc, started, ret, exit_code, configOk, raised, shots>>
    /\ UNCHANGED loadVars

\* run(), lines 462-464: the next period, and the check of self.running
ForPeriod ==
    /\ pc = "for_period"
    /\ \/ /\ pi > Len(Periods)
          /\ ci' = ci + 1
          /\ pc' = "for_contract"
       \/ /\ pi <= Len(Periods)
          /\ ~running
          /\ ci' = ci + 1
          /\ pc' = "for_contract"
       \/ /\ pi <= Len(Periods)
          /\ running
          /\ ci' = ci
          /\ pc' = "switch_period"
    /\ UNCHANGED <<contracts, running, pi, brightness, original_brightness,
                   lastBrightnessArg, files, doc, started, ret, exit_code, configOk,
                   raised, switched, shots, lastCall, lastContractCall, lateSwitches,
                   stepFailed>>
    /\ UNCHANGED loadVars

SwitchPeriod_IgnoreFailure ==
    /\ pc = "switch_period"
    /\ \E ok \in BOOLEAN :
          /\ lastCall' = [op |-> "switch_period", c |-> ci, p |-> Periods[pi], ok |-> ok]
          /\ stepFailed' = (stepFailed \/ ~ok)
          /\ pi' = pi
          /\ pc' = "take_screenshot"
    /\ lateSwitches' = IF running THEN lateSwitches ELSE lateSwitches + 1
    /\ UNCHANGED <<contracts, running, ci, brightness, original_brightness,
                   lastBrightnessArg, files, doc, started, ret, exit_code, configOk,
                   raised, switched, shots, lastContractCall>>
    /\ UNCHANGED loadVars

\* run(), lines 469-471, and switch_period, lines 297-320: True, or False and the
\* loop continues with the next period
SwitchPeriod ==
    /\ pc = "switch_period"
    /\ \E ok \in BOOLEAN :
          /\ lastCall' = [op |-> "switch_period", c |-> ci, p |-> Periods[pi], ok |-> ok]
          /\ stepFailed' = (stepFailed \/ ~ok)
          /\ IF ok
             THEN /\ pi' = pi
                  /\ pc' = "take_screenshot"
             ELSE /\ pi' = pi + 1
                  /\ pc' = "for_period"
    /\ lateSwitches' = IF running THEN lateSwitches ELSE lateSwitches + 1
    /\ UNCHANGED <<contracts, running, ci, brightness, original_brightness,
                   lastBrightnessArg, files, doc, started, ret, exit_code, configOk,
                   raised, switched, shots, lastContractCall>>
    /\ UNCHANGED loadVars

\* run(), lines 474-477, and take_screenshot, lines 322-337: the file is written
\* and its path returned, or None; run() ignores the result
TakeScreenshot ==
    /\ pc = "take_screenshot"
    /\ \E ok \in BOOLEAN :
          /\ lastCall' = [op |-> "take_screenshot", c |-> ci, p |-> Periods[pi], ok |-> ok]
          /\ stepFailed' = (stepFailed \/ ~ok)
          /\ files' = IF ok THEN files \cup {Filename(contracts[ci], Periods[pi])} ELSE files
          /\ shots' = IF ok THEN Append(shots, <<ci, Periods[pi]>>) ELSE shots
    /\ pi' = pi + 1
    /\ pc' = "for_period"
    /\ UNCHANGED <<contracts, running, ci, brightness, original_brightness,
                   lastBrightnessArg, doc, started, ret, exit_code, configOk, raised,
                   switched, lastContractCall, lateSwitches>>
    /\ UNCHANGED loadVars

\* save_document, lines 378-396: an image for each contract and period whose file
\* exists in the screenshots directory
DocumentImages ==
    {<<contracts[i], Periods[j]>> : i \in 1..Len(contracts), j \in 1..Len(Periods)}

SaveDocumentImages ==
    {x \in DocumentImages : Filename(x[1], x[2]) \in files}

\* run(), lines 480-482, and save_document, lines 339-414: the document is written
\* when self.running holds; a failure is logged and False returned, which run() ignores
AfterLoop ==
    /\ pc = "after_loop"
    /\ \/ /\ running
          /\ \A i \in 1..Len(contracts) : WellFormed(contracts[i])
          /\ doc' = [called |-> TRUE, written |-> TRUE, images |-> SaveDocumentImages]
       \/ /\ running
          /\ doc' = [called |-> TRUE, written |-> FALSE, images |-> {}]
       \/ /\ ~running
          /\ doc' = doc
    /\ pc' = "restore"
    /\ UNCHANGED <<contracts, running, ci, pi, brightness, original_brightness,
                   lastBrightnessArg, files, started, ret, exit_code, configOk, raised,
                   switched, shots, lastCall, lastContractCall, lateSwitches, stepFailed>>
    /\ UNCHANGED loadVars

\* run(), lines 485-487
RestoreBrightness ==
    /\ pc = "restore"
    /\ SetBrightness(original_brightness)
    /\ lastBrightnessArg' = "original_brightness"
    /\ ret' = "True"
    /\ pc' = "returned"
    /\ UNCHANGED <<contracts, running, ci, pi, original_brightness, files, doc, started,
                   exit_code, configOk, raised, switched, shots, lastCall,
                   lastContractCall, lateSwitches, stepFailed>>
    /\ UNCHANGED loadVars

\* run(), lines 489-493
Except ==
    /\ pc = "except"
    /\ SetBrightness(original_brightness)
    /\ lastBrightnessArg' = "original_brightness"
    /\ raised' = TRUE
    /\ ret' = "False"
    /\ pc' = "returned"
    /\ UNCHANGED <<contracts, running, ci, pi, original_brightness, files, doc, started,
                   exit_code, configOk, switched, shots, lastCall, lastContractCall,
                   lateSwitches, stepFailed>>
    /\ UNCHANGED loadVars

\* main(), lines 503-510
MainReturn ==
    /\ pc = "returned"
    /\ exit_code' = IF ret = "True" THEN 0 ELSE 1
    /\ pc' = "exit"
    /\ UNCHANGED <<contracts, running, ci, pi, brightness, original_brightness,
                   lastBrightnessArg, files, doc, started, ret, configOk, raised,
                   switched, shots, lastCall, lastContractCall, lateSwitches, stepFailed>>
    /\ UNCHANGED loadVars

\* _on_esc_press, lines 416-419, called on the keyboard listener's thread at any
\* time between its registration in the constructor and the exit of the process
OnEscPress ==
    /\ pc \notin {"main", "exit"}
    /\ running' = FALSE
    /\ UNCHANGED <<pc, contracts, ci, pi, brightness, original_brightness,
                   lastBrightnessArg, files, doc, started, ret, exit_code, configOk,
                   raised, switched, shots, lastCall, lastContractCall, lateSwitches,
                   stepFailed>>
    /\ UNCHANGED loadVars

MainThread ==
    \/ Construct
    \/ RunSetBrightness
    \/ StartWenhua
    \/ ForContract
    \/ SwitchContract
    \/ ForPeriod
    \/ SwitchPeriod
    \/ TakeScreenshot
    \/ AfterLoop
    \/ RestoreBrightness
    \/ Except
    \/ MainReturn

Next == MainThread \/ OnEscPress

Spec == Init /\ [][Next]_vars

FairSpec == Spec /\ WF_vars(MainThread)

(***************************************************************************)
(* The constructor's input phase: _get_top_n_input, _load_contracts and    *)
(* get_main_contracts.  A line of input is a sequence of characters.       *)
(***************************************************************************)
MaxLineLen == 2

MaxRows == 3

DefaultTopN == 5

TopNChars == {" ", "-", "0", "1"}

AnswerChars == {" ", "y", "Y", "n"}

Lines(chars) == UNION {[1..n -> chars] : n \in 0..MaxLineLen}

\* str.strip()
RECURSIVE LStrip(_)
LStrip(s) == IF s # <<>> /\ Head(s) = " " THEN LStrip(Tail(s)) ELSE s

RECURSIVE RStrip(_)
RStrip(s) ==
    IF s # <<>> /\ s[Len(s)] = " " THEN RStrip(SubSeq(s, 1, Len(s) - 1)) ELSE s

Strip(s) == RStrip(LStrip(s))

\* str.lower()
Lower(s) == [i \in DOMAIN s |-> IF s[i] = "Y" THEN "y" ELSE s[i]]

Digits == {"0", "1"}

DigitValue(c) == IF c = "0" THEN 0 ELSE 1

RECURSIVE DigitsValue(_)
DigitsValue(s) ==
    IF s = <<>> THEN 0
    ELSE 10 * DigitsValue(SubSeq(s, 1, Len(s) - 1)) + DigitValue(s[Len(s)])

\* int(s) of a stripped, non-empty string: an optional sign and one or more digits,
\* anything else raises ValueError
IntOk(s) ==
    LET body == IF Head(s) = "-" THEN Tail(s) ELSE s
    IN  body # <<>> /\ \A i \in DOMAIN body : body[i] \in Digits

IntValue(s) == IF Head(s) = "-" THEN 0 - DigitsValue(Tail(s)) ELSE DigitsValue(s)

\* the built-in list of _load_contracts, lines 199-225
DefaultContracts ==
    << [code |-> "RB", name |-> "rebar"],       [code |-> "HC", name |-> "hot coil"],
       [code |-> "I",  name |-> "iron ore"],    [code |-> "J",  name |-> "coke"],
       [code |-> "JM", name |-> "coking coal"], [code |-> "CU", name |-> "copper"],
       [code |-> "AL", name |-> "aluminium"],   [code |-> "ZN", name |-> "zinc"],
       [code |-> "NI", name |-> "nickel"],      [code |-> "SN", name |-> "tin"],
       [code |-> "AU", name |-> "gold"],        [code |-> "AG", name |-> "silver"],
       [code |-> "FU", name |-> "fuel oil"],    [code |-> "BU", name |-> "bitumen"],
       [code |-> "RU", name |-> "rubber"],      [code |-> "A",  name |-> "soybean 1"],
       [code |-> "M",  name |-> "soybean meal"], [code |-> "Y", name |-> "soybean oil"],
       [code |-> "P",  name |-> "palm oil"],    [code |-> "C",  name |-> "corn"],
       [code |-> "CS", name |-> "starch"],      [code |-> "CF", name |-> "cotton"],
       [code |-> "SR", name |-> "sugar"],       [code |-> "TA", name |-> "PTA"],
       [code |-> "MA", name |-> "methanol"] >>

NoCache == [exists |-> FALSE, list |-> <<>>]

\* contracts.json before the run: absent, or a list an earlier run wrote
CacheChoices == {NoCache, [exists |-> TRUE, list |-> <<RB, HC>>]}

\* the rows of fees.xls: contract code, product name, volume.  A cell that is
\* empty is read as NaN, never as '', so every code here is a non-empty string.
Products == {"A", "B", "C"}

Volumes == {1, 2}

Row(i, cell) == [code |-> "c" \o ToString(i), name |-> cell[1], volume |-> cell[2]]

Tables ==
    UNION {{[i \in 1..n |-> Row(i, f[i])] : f \in [1..n -> Products \X Volumes]} :
           n \in 0..MaxRows}

\* whether row r1 must come before row r2
Precedes(r1, r2, ascending) ==
    IF ascending THEN r1.volume < r2.volume ELSE r1.volume > r2.volume

\* the orders of the rows with indices in S in which no row comes before one that
\* precedes it: the outcomes of a sort that is not stable
RECURSIVE Sorted(_, _, _)
Sorted(t, S, ascending) ==
    IF S = {} THEN {<<>>}
    ELSE UNION {{<<t[i]>> \o rest : rest \in Sorted(t, S \ {i}, ascending)} :
                i \in {k \in S : \A j \in S : ~Precedes(t[j], t[k], ascending)}}

SortValues_Ascending(t) == Sorted(t, DOMAIN t, TRUE)

\* df.sort_values(by=volume, ascending=False), line 252: the default sort is not
\* stable, so rows of equal volume come out in any order
SortValues(t) == Sorted(t, DOMAIN t, FALSE)

RECURSIVE Pick(_, _, _)
Pick(rows, keep, i) ==
    IF i > Len(rows) THEN <<>>
    ELSE (IF i \in keep THEN <<rows[i]>> ELSE <<>>) \o Pick(rows, keep, i + 1)

\* df.drop_duplicates(subset=name, keep='first'), line 255
DropDuplicates(rows) ==
    Pick(rows, {i \in 1..Len(rows) : \A j \in 1..(i - 1) : rows[j].name # rows[i].name}, 1)

\* df.head(n), line 258
HeadRows(rows, n) == SubSeq(rows, 1, IF n < Len(rows) THEN n ELSE Len(rows))

\* lines 263-274: a record for each row whose code is not empty
ToContracts(rows) ==
    LET kept == Pick(rows, {i \in 1..Len(rows) : rows[i].code # ""}, 1)
    IN  [i \in DOMAIN kept |-> [code |-> kept[i].code, name |-> kept[i].name]]

\* get_main_contracts, lines 252-274, of the sorted rows
GetMainContracts(rows, n) == ToContracts(HeadRows(DropDuplicates(rows), n))

runIdleVars == <<running, ci, pi, brightness, original_brightness, lastBrightnessArg,
                 files, doc, started, ret, exit_code, configOk, raised, switched, shots,
                 lastCall, lastContractCall, lateSwitches, stepFailed>>

LoadInit ==
    /\ pc = "input_top_n"
    /\ contracts = <<>>
    /\ running = TRUE
    /\ ci = 1
    /\ pi = 1
    /\ brightness \in BrightnessLevels
    /\ original_brightness = brightness
    /\ lastBrightnessArg = "none"
    /\ files = {}
    /\ doc = NoDoc
    /\ started = "none"
    /\ ret = "none"
    /\ exit_code = -1
    /\ configOk = TRUE
    /\ raised = FALSE
    /\ switched = <<>>
    /\ shots = <<>>
    /\ lastCall = NoCall
    /\ lastContractCall = NoCall
    /\ lateSwitches = 0
    /\ stepFailed = FALSE
    /\ top_n = 0
    /\ lastPrompt = "none"
    /\ cache \in CacheChoices
    /\ cache0 = cache
    /\ answer = <<>>
    /\ contacted = FALSE
    /\ table = <<>>
    /\ fetchFailed = FALSE

\* _get_top_n_input, lines 89-102: one round of the while loop
GetTopNInput ==
    /\ pc = "input_top_n"
    /\ \E line \in Lines(TopNChars) :
          LET s == Strip(line)
          IN  \/ /\ s = <<>>
                 /\ top_n' = DefaultTopN
                 /\ pc' = "load_contracts"
                 /\ lastPrompt' = "none"
              \/ /\ s # <<>>
                 /\ ~IntOk(s)
                 /\ lastPrompt' = "enter a valid integer"
                 /\ UNCHANGED <<top_n, pc>>
              \/ /\ s # <<>>
                 /\ IntOk(s)
                 /\ IntValue(s) <= 0
                 /\ lastPrompt' = "enter an integer greater than 0"
                 /\ UNCHANGED <<top_n, pc>>
              \/ /\ s # <<>>
                 /\ IntOk(s)
                 /\ IntValue(s) > 0
                 /\ top_n' = IntValue(s)
                 /\ pc' = "load_contracts"
                 /\ lastPrompt' = "none"
    /\ UNCHANGED <<contracts, cache, cache0, answer, contacted, table, fetchFailed>>
    /\ UNCHANGED runIdleVars

\* _load_contracts, lines 172-177: the prompt, asked only when contracts.json exists
AskUpdate ==
    /\ pc = "load_contracts"
    /\ \/ /\ ~cache.exists
          /\ pc' = "fetch"
          /\ UNCHANGED <<answer, contracts>>
       \/ /\ cache.exists
          /\ \E line \in Lines(AnswerChars) :
                /\ answer' = line
                /\ IF Strip(Lower(line)) # <<"y">>
                   THEN /\ contracts' = cache.list
                        /\ pc' = "loaded"
                   ELSE /\ contracts' = contracts
                        /\ pc' = "fetch"
    /\ UNCHANGED <<top_n, lastPrompt, cache, cache0, contacted, table, fetchFailed>>
    /\ UNCHANGED runIdleVars

\* _load_contracts, lines 179-191, with get_main_contracts, lines 233-274: the list
\* is fetched, written to contracts.json and returned, or the try block raises
\* (the download, the parsing of the sheet or the write of the file)
Fetch ==
    /\ pc = "fetch"
    /\ contacted' = TRUE
    /\ \/ /\ \E t \in Tables : \E s \in SortValues(t) :
                /\ table' = t
                /\ contracts' = GetMainContracts(s, top_n)
          /\ cache' = [exists |-> TRUE, list |-> contracts']
          /\ fetchFailed' = FALSE
          /\ pc' = "loaded"
       \/ /\ fetchFailed' = TRUE
          /\ pc' = "fallback"
          /\ UNCHANGED <<table, contracts, cache>>
    /\ UNCHANGED <<top_n, lastPrompt, cache0, answer>>
    /\ UNCHANGED runIdleVars

Fallback_AlwaysDefault ==
    /\ pc = "fallback"
    /\ contracts' = DefaultContracts
    /\ cache' = [exists |-> TRUE, list |-> DefaultContracts]
    /\ pc' = "loaded"
    /\ UNCHANGED <<top_n, lastPrompt, cache0, answer, contacted, table, fetchFailed>>
    /\ UNCHANGED runIdleVars

\* _load_contracts, lines 190-231: the except clause
Fallback ==
    /\ pc = "fallback"
    /\ \/ /\ cache.exists
          /\ contracts' = cache.list
          /\ cache' = cache
       \/ /\ ~cache.exists
          /\ contracts' = DefaultContracts
          /\ cache' = [exists |-> TRUE, list |-> DefaultContracts]
    /\ pc' = "loaded"
    /\ UNCHANGED <<top_n, lastPrompt, cache0, answer, contacted, table, fetchFailed>>
    /\ UNCHANGED runIdleVars

LoadNext == GetTopNInput \/ AskUpdate \/ Fetch \/ Fallback

LoadSpec == LoadInit /\ [][LoadNext]_vars

(***************************************************************************)
(* Properties of main() and run()                                          *)
(***************************************************************************)
Range(f) == {f[i] : i \in DOMAIN f}

Returned == pc \in {"returned", "exit"}

UpTo(n) == [i \in 1..n |-> i]

\* C1 (as stated): once _on_esc_press has set running to False, running stays
\* False and no switch_contract or switch_period call is made any more.
C1_NoSwitchAfterEsc == [][~running => (~running' /\ lateSwitches' = lateSwitches)]_vars

\* C1 (amended): once running is False it stays False, no check of self.running
\* (lines 450 and 463) lets another iteration begin, at most one switch call is
\* still made (the one whose check had passed before ESC arrived), and run()
\* returns.
C1_CancellationStopsLoop ==
    /\ [][~running => ~running']_vars
    /\ [][(~running /\ pc \in {"for_contract", "for_period"})
             => pc' \notin {"switch_contract", "switch_period"}]_vars
    /\ [](lateSwitches <= 1)
    /\ [](~running => <>Returned)

C1_Witness ==
    /\ ~running
    /\ pc = "returned"
    /\ ret = "True"
    /\ lateSwitches = 1
    /\ Len(switched) < Len(contracts)

\* C2: with no cancellation (and no exception in run() itself), whatever
\* switch_contract, switch_period and take_screenshot returned, run() has called
\* switch_contract for every contract of the list, in order, and returns True.
C2_LogAndContinue ==
    (Returned /\ running /\ started = "True" /\ ~raised)
        => (ret = "True" /\ switched = UpTo(Len(contracts)))

C2_Witness ==
    /\ pc = "returned"
    /\ running
    /\ ret = "True"
    /\ stepFailed
    /\ switched = <<1, 2>>
    /\ Len(shots) = 3
    /\ \A k \in 1..Len(shots) : shots[k][1] = 2

C4_Order == <<"weekly", "daily", "hourly">>

C4_AllPairs(n) ==
    [k \in 1..(3 * n) |-> <<((k - 1) \div 3) + 1, C4_Order[((k - 1) % 3) + 1]>>]

\* C4: a screenshot is only taken of a contract that was switched to before; and
\* when start_wenhua succeeded, no step failed and ESC was not pressed, the
\* screenshots are exactly one per (contract, period), contracts in list order,
\* periods weekly, daily, hourly, with one switch_contract call per contract.
C4_FullCoverageInOrder ==
    /\ \A k \in 1..Len(shots) : shots[k][1] \in Range(switched)
    /\ (Returned /\ running /\ started = "True" /\ ~stepFailed /\ ~raised)
           => (shots = C4_AllPairs(Len(contracts)) /\ switched = UpTo(Len(contracts)))

C4_Witness ==
    /\ pc = "returned"
    /\ running
    /\ ~stepFailed
    /\ contracts = <<HC, RB>>
    /\ Len(shots) = 6

\* C5: the document holds an image for a (contract, period) pair if and only if
\* take_screenshot succeeded for that pair during this run.
C5_DocumentHoldsTheCaptured ==
    doc.written =>
        \A x \in DocumentImages :
            x \in doc.images <=>
                \E k \in 1..Len(shots) : contracts[shots[k][1]] = x[1] /\ shots[k][2] = x[2]

\* C6: every take_screenshot call directly follows a switch_period call of the
\* same period that returned True, and the most recent switch_contract call is
\* the one of the same contract and returned True.
C6_ShotFollowsSwitch ==
    [][(lastCall'.op = "take_screenshot" /\ lastCall' # lastCall)
          => /\ lastCall = [op |-> "switch_period", c |-> lastCall'.c,
                            p |-> lastCall'.p, ok |-> TRUE]
             /\ lastContractCall = [op |-> "switch_contract", c |-> lastCall'.c,
                                    p |-> "none", ok |-> TRUE]]_vars

C6_Witness ==
    /\ lastCall.op = "take_screenshot"
    /\ lastCall.ok
    /\ lastCall.c = 2
    /\ lastCall.p = "hourly"

\* C7: when start_wenhua failed, run() returned False with no switch_contract,
\* switch_period, take_screenshot or save_document call, and main() returns 1;
\* main() returns 0 exactly when run() returned True.
C7_StartFailure ==
    /\ started = "False"
          => /\ Returned
             /\ ret = "False"
             /\ switched = <<>>
             /\ shots = <<>>
             /\ lastCall = NoCall
             /\ ~doc.called
             /\ (pc = "exit" => exit_code = 1)
    /\ pc = "exit" => (exit_code = 0 <=> ret = "True")

C7_Witness ==
    /\ pc = "exit"
    /\ started = "False"
    /\ exit_code = 1

\* C9: whenever run() has returned after setting the brightness to 10, its last
\* brightness call is set_brightness(self.original_brightness).
C9_BrightnessRestored ==
    (Returned /\ lastBrightnessArg # "none") => lastBrightnessArg = "original_brightness"

(***************************************************************************)
(* Properties of _load_contracts and get_main_contracts                    *)
(***************************************************************************)
Loaded == pc = "loaded"

Written(list) == [exists |-> TRUE, list |-> list]

\* the list is made of rows of the downloaded table
C3_Fetched(list) ==
    \A i \in DOMAIN list :
        \E k \in DOMAIN table : table[k].code = list[i].code /\ table[k].name = list[i].name

C3_Outcome(keepCache) ==
    IF keepCache
    THEN contracts = cache0.list /\ ~contacted /\ cache = cache0
    ELSE /\ contacted
         /\ IF ~fetchFailed
            THEN C3_Fetched(contracts) /\ cache = Written(contracts)
            ELSE IF cache0.exists
                 THEN contracts = cache0.list /\ cache = cache0
                 ELSE contracts = DefaultContracts /\ cache = Written(DefaultContracts)

\* C3 (as stated): the cached list is kept, and the remote source not contacted,
\* when contracts.json exists and the answer typed is anything other than 'y'.
C3_AnyAnswerButY == Loaded => C3_Outcome(cache0.exists /\ answer # <<"y">>)

\* the answer is a 'y' or a 'Y' with nothing but blanks around it
C3_IsYes(a) ==
    \E i \in DOMAIN a : a[i] \in {"y", "Y"} /\ \A j \in DOMAIN a : j # i => a[j] = " "

\* C3 (amended): the cached list is kept, and the remote source not contacted,
\* when contracts.json exists and the answer, lower-cased and stripped of
\* surrounding blanks, is not 'y'; otherwise the list is fetched, written and
\* returned, and when that fails the cached list is returned if contracts.json
\* exists, else the built-in list is written and returned.
C3_Fallback == Loaded => C3_Outcome(cache0.exists /\ ~C3_IsYes(answer))

C3_Witness ==
    /\ Loaded
    /\ cache0.exists
    /\ answer = <<" ", "Y">>
    /\ fetchFailed
    /\ contracts = cache0.list

Names(rows) == {rows[i].name : i \in DOMAIN rows}

\* the highest volume among the rows of a product
Best(name) ==
    CHOOSE v \in Volumes :
        /\ \E k \in DOMAIN table : table[k].name = name /\ table[k].volume = v
        /\ \A k \in DOMAIN table : table[k].name = name => table[k].volume <= v

\* C8: what get_main_contracts returned holds at most top_n records (as many as
\* there are products, if fewer), no two of the same product, each the code of a
\* row of highest volume of its product, in order of non-increasing volume, and
\* no product left out has a higher best volume than one that is in.
C8_TopNByVolume ==
    (Loaded /\ contacted /\ ~fetchFailed) =>
        /\ Len(contracts) <= top_n
        /\ Len(contracts) = IF top_n < Cardinality(Names(table))
                            THEN top_n ELSE Cardinality(Names(table))
        /\ \A i, j \in DOMAIN contracts : i # j => contracts[i].name # contracts[j].name
        /\ \A i \in DOMAIN contracts :
              \E k \in DOMAIN table :
                  /\ table[k].code = contracts[i].code
                  /\ table[k].name = contracts[i].name
                  /\ table[k].volume = Best(contracts[i].name)
        /\ \A i, j \in DOMAIN contracts :
              i < j => Best(contracts[i].name) >= Best(contracts[j].name)
        /\ \A out \in Names(table) \ Names(contracts) :
              \A i \in DOMAIN contracts : Best(out) <= Best(contracts[i].name)

C8_Witness ==
    /\ Loaded
    /\ contacted
    /\ ~fetchFailed
    /\ top_n = 1
    /\ Len(table) = 3
    /\ Cardinality(Names(table)) = 2
    /\ table[1].volume = 1
    /\ table[3].volume = 2
    /\ table[3].name = table[1].name
    /\ contracts = <<[code |-> "c3", name |-> table[3].name]>>

====
